---- MODULE Spec2Model ----
(***************************************************************************)
(* Warning-escalation and moderation-action lifecycle of the moderation    *)
(* service (models.py, api/v1/internal.py).                                *)
(*                                                                         *)
(* The store is the committed content of the tables `warnings` and         *)
(* `actions`; `session` is the unit of work behind db.session: rows added  *)
(* but not yet committed and is_active changes not yet committed.  Queries *)
(* run through the session and therefore see its pending content           *)
(* (autoflush).  A Query object is modelled by the rows it selects.        *)
(* Every coroutine is cut at its awaits: one step runs from the completion *)
(* of one await to the start of the next.                                  *)
(***************************************************************************)
EXTENDS FiniteSets, Integers, Sequences, TLC

\* ---- bounds ----
MaxWarnings == 3
MaxActions == 1
MaxTime == 1
MaxThreshold == 3
\* is_active changes left uncommitted in the session at one time
MaxDirty == 1

\* ---- program constants ----
DEFAULT_MODERATION_WARNING_THRESHOLD == 3

ACTION_TYPES == {"ban_account", "hide_message", "ban_game"}

\* Optional values: None is the empty tuple, a present value x is <<x>>.
None == <<>>

Some(x) == <<x>>

\* ---- input sets ----
InputTypes == {"hide_message", "ban_game"}

Users == {1, 2}

Moderators == {7}

Reasons == {"cheating"}

FinishAts == {None} \cup {Some(t) : t \in 1..MaxTime}

Requests == {1, 2}

\* The serial specification runs every call in this request slot.
SerialRequest == 1

Tables == {"warnings", "actions"}

\* Threshold tables: ban_account has a row with the column default; ban_game
\* has a row with any value up to the bound; hide_message has no row, or in
\* one table a row so that two types escalate side by side.
ThresholdTable(game, hide) ==
    [a \in ACTION_TYPES |->
        IF a = "ban_game" THEN game
        ELSE IF a = "hide_message" THEN hide
        ELSE Some(DEFAULT_MODERATION_WARNING_THRESHOLD)]

ThresholdTables ==
    {ThresholdTable(Some(t), None) : t \in 0..MaxThreshold}
        \cup {ThresholdTable(Some(2), Some(2))}

\* env is the deployment, fixed at start: scope says whether db.session is one
\* session shared by all calls in progress ("shared") or one per request
\* ("request"); action_rows is the size the actions table is explored to.
VARIABLES warnings, actions, thresholds, session, req, now, env

vars == <<warnings, actions, thresholds, session, req, now, env>>

\* ---- records ----
EmptySession == [new_w |-> {}, new_a |-> {}, dirty |-> {}]

IdleRequest ==
    [op |-> "none", pc |-> "idle", action_type |-> "", reason |-> "",
     moderator_id |-> 0, user_id |-> 0, finish_at |-> None,
     in_moderate |-> FALSE, warns_count |-> 0, wid |-> 0, aid |-> 0,
     sent |-> <<>>, err |-> "", prior |-> 0, pre_w |-> {}, pre_a |-> {}]

\* ---- ModerationAction hybrid properties ----
time_limited(a) == a.finish_at # None

finished_strict(a, t) == IF time_limited(a) THEN a.finish_at[1] < t ELSE TRUE

finished(a, t) == IF time_limited(a) THEN a.finish_at[1] <= t ELSE TRUE

action_active(a, t) == a.is_active /\ ~finished(a, t)

warning_active(w) == w.is_active

\* ---- the view a session s gives of the tables ----
DirtyFlag(s, tbl, row) ==
    IF \E d \in s.dirty : d.tbl = tbl /\ d.id = row.id
    THEN (CHOOSE d \in s.dirty : d.tbl = tbl /\ d.id = row.id).is_active
    ELSE row.is_active

ViewW(s) ==
    {[w EXCEPT !.is_active = DirtyFlag(s, "warnings", w)] : w \in warnings}
        \cup s.new_w

ViewA(s) ==
    {[a EXCEPT !.is_active = DirtyFlag(s, "actions", a)] : a \in actions}
        \cup s.new_a

ViewWarnings == ViewW(session)

ViewActions == ViewA(session)

ViewOf(tbl) == IF tbl = "warnings" THEN ViewWarnings ELSE ViewActions

\* The autoincrement primary keys: rows are never deleted and a rolled-back
\* row leaves no trace, so the next key is the first one that no row in view
\* carries and no call in progress holds; with one call at a time that is
\* one past the rows in view.
FreeId(used) ==
    CHOOSE i \in 1..(Cardinality(used) + 1) :
        i \notin used /\ \A j \in 1..(i - 1) : j \in used

nextWid ==
    FreeId({w.id : w \in ViewWarnings} \cup ({req[r].wid : r \in Requests} \ {0}))

nextAid ==
    FreeId({a.id : a \in ViewActions} \cup ({req[r].aid : r \in Requests} \ {0}))

\* The part of session s that belongs to the call holding the rows wid and
\* aid, and the rest: all and nothing when the session is shared.
OwnPart(s, wid, aid) ==
    [new_w |-> {w \in s.new_w : w.id = wid},
     new_a |-> {a \in s.new_a : a.id = aid},
     dirty |-> {}]

OtherPart(s, wid, aid) ==
    [new_w |-> {w \in s.new_w : w.id # wid},
     new_a |-> {a \in s.new_a : a.id # aid},
     dirty |-> s.dirty]

Mine(s, wid, aid) ==
    IF env.scope = "shared" THEN s ELSE OwnPart(s, wid, aid)

Others(s, wid, aid) ==
    IF env.scope = "shared" THEN EmptySession ELSE OtherPart(s, wid, aid)

\* A pending row is seen through the session that holds it.
Visible(q, w) ==
    env.scope = "shared" \/ w \notin session.new_w \/ w.id = q.wid

\* ---- BaseModerationAction.actions_query ----
warnings_query_all_types(user_id, action_type) ==
    {w \in ViewWarnings : warning_active(w) /\ w.user_id = user_id}

warnings_query_inactive_too(user_id, action_type) ==
    {w \in ViewWarnings : w.user_id = user_id /\ w.action_type = action_type}

warnings_query(user_id, action_type) ==
    {w \in ViewWarnings :
        warning_active(w) /\ w.user_id = user_id /\ w.action_type = action_type}

actions_query(user_id) ==
    {a \in ViewActions : action_active(a, now) /\ a.user_id = user_id}

\* ---- api/v1/internal.py ----
get_moderations(user_id) == actions_query(user_id)

\* ---- db.session ----
Commit(mine, rest) ==
    /\ warnings' = ViewW(mine)
    /\ actions' = ViewA(mine)
    /\ session' = rest

SessionCommit(s) == Commit(s, EmptySession)

RequestCommit(s, wid, aid) == Commit(Mine(s, wid, aid), Others(s, wid, aid))

SessionRollback_missing(r) == UNCHANGED <<warnings, actions, session>>

SessionRollback(r) ==
    /\ session' = Others(session, req[r].wid, req[r].aid)
    /\ UNCHANGED <<warnings, actions>>

Init ==
    /\ warnings = {}
    /\ actions = {}
    /\ thresholds \in ThresholdTables
    /\ session = EmptySession
    /\ req = [r \in Requests |-> IdleRequest]
    /\ now = 0
    /\ env = [scope |-> "shared", action_rows |-> MaxActions]

Quiescent == \A r \in Requests : req[r].pc = "idle"

\* ---- the rows built from `data` (lines 114-122 and 150-157) ----
WarningRow(id, action_type, reason, moderator_id, user_id) ==
    [id |-> id, action_type |-> action_type, moderator_id |-> moderator_id,
     user_id |-> user_id, reason |-> reason, is_active |-> TRUE]

ActionRow_no_finish_at(id, action_type, reason, moderator_id, user_id, finish_at) ==
    [id |-> id, action_type |-> action_type, moderator_id |-> moderator_id,
     user_id |-> user_id, reason |-> reason, is_active |-> TRUE,
     finish_at |-> None]

ActionRow(id, action_type, reason, moderator_id, user_id, finish_at) ==
    [id |-> id, action_type |-> action_type, moderator_id |-> moderator_id,
     user_id |-> user_id, reason |-> reason, is_active |-> TRUE,
     finish_at |-> finish_at]

\* ---- ModerationWarning.warn ----
\* Lines 150-158: build the row and add it to the session.
WarnBegin(r, action_type, reason, moderator_id, user_id, finish_at) ==
    /\ req[r].pc = "idle"
    /\ nextWid <= MaxWarnings
    /\ LET obj == WarningRow(nextWid, action_type, reason, moderator_id, user_id)
       IN  session' = [session EXCEPT !.new_w = @ \cup {obj}]
    /\ req' = [req EXCEPT ![r] =
                  [IdleRequest EXCEPT
                      !.op = "warn", !.pc = "count",
                      !.action_type = action_type, !.reason = reason,
                      !.moderator_id = moderator_id, !.user_id = user_id,
                      !.finish_at = finish_at, !.wid = nextWid,
                      !.prior = Cardinality(
                          {w \in warnings_query(user_id, action_type) :
                              env.scope = "shared" \/ w \notin session.new_w}),
                      !.pre_w = warnings, !.pre_a = actions]]
    /\ UNCHANGED <<warnings, actions, thresholds, env, now>>

\* The rows counted by line 161: the query runs after the add of line 158.
CountedWarnings_before_add(q) ==
    {w \in warnings_query(q.user_id, q.action_type) :
        Visible(q, w) /\ w.id # q.wid}

CountedWarnings(q) ==
    {w \in warnings_query(q.user_id, q.action_type) : Visible(q, w)}

\* The comparison of line 163.
Escalates_gt(warns_count, value) == warns_count > value

Escalates(warns_count, value) == warns_count >= value

\* The threshold read of line 162-163: the row's value, or None without a row.
ThresholdValue_zero_absent(action_type) ==
    IF thresholds[action_type] = Some(0) THEN None ELSE thresholds[action_type]

ThresholdValue_default(action_type) ==
    IF thresholds[action_type] = None
    THEN Some(DEFAULT_MODERATION_WARNING_THRESHOLD)
    ELSE thresholds[action_type]

ThresholdValue(action_type) == thresholds[action_type]

\* The commit argument of the moderate call of lines 164-165.
EscalationCommit_true == TRUE

EscalationCommit == FALSE

\* Lines 161-165/167: the count, the threshold row, the comparison, and the
\* chosen branch up to its first send; moderate(commit=False) adds the Action
\* to the session (lines 114-124).  No threshold row: threshold is None and
\* threshold.value raises AttributeError, handled by lines 177-179.
\* Two names are resolved by what they denote: the count of line 161 is the
\* number of rows the query of lines 71-74 selects, and cls.moderate of
\* line 164 is ModerationAction.moderate of lines 109-135.
WarnCount(r) ==
    /\ req[r].pc = "count"
    /\ LET q == req[r]
           warns_count == Cardinality(CountedWarnings(q))
           threshold == ThresholdValue(q.action_type)
       IN  IF threshold = None
           THEN /\ SessionRollback(r)
                /\ req' = [req EXCEPT ![r].pc = "raised",
                                      ![r].err = "AttributeError",
                                      ![r].warns_count = warns_count]
           ELSE IF Escalates(warns_count, threshold[1])
           THEN /\ nextAid <= env.action_rows
                /\ LET obj == ActionRow(nextAid, q.action_type, q.reason,
                                        q.moderator_id, q.user_id, q.finish_at)
                       s == [session EXCEPT !.new_a = @ \cup {obj}]
                   IN  IF EscalationCommit
                       THEN RequestCommit(s, q.wid, nextAid)
                       ELSE session' = s /\ UNCHANGED <<warnings, actions>>
                /\ req' = [req EXCEPT ![r].pc = "email",
                                      ![r].in_moderate = TRUE,
                                      ![r].aid = nextAid,
                                      ![r].warns_count = warns_count]
           ELSE /\ req' = [req EXCEPT ![r].pc = "email",
                                      ![r].warns_count = warns_count]
                /\ UNCHANGED <<warnings, actions, session>>
    /\ UNCHANGED <<thresholds, env, now>>

\* ---- ModerationAction.moderate ----
\* Lines 114-125 of a direct call: add the Action and, with commit, commit.
ModerateBegin(r, action_type, reason, moderator_id, user_id, finish_at, commit) ==
    /\ req[r].pc = "idle"
    /\ nextAid <= env.action_rows
    /\ LET obj == ActionRow(nextAid, action_type, reason, moderator_id,
                            user_id, finish_at)
           s == [session EXCEPT !.new_a = @ \cup {obj}]
       IN  IF commit
           THEN RequestCommit(s, 0, nextAid)
           ELSE session' = s /\ UNCHANGED <<warnings, actions>>
    /\ req' = [req EXCEPT ![r] =
                  [IdleRequest EXCEPT
                      !.op = "moderate", !.pc = "email", !.in_moderate = TRUE,
                      !.action_type = action_type, !.reason = reason,
                      !.moderator_id = moderator_id, !.user_id = user_id,
                      !.finish_at = finish_at, !.aid = nextAid,
                      !.pre_w = warnings, !.pre_a = actions]]
    /\ UNCHANGED <<thresholds, env, now>>

\* ---- notifications ----
Subject(q) == IF q.in_moderate THEN "You are moderated" ELSE "You are warned"

\* A failed send raises into the coroutine: warn rolls back and re-raises
\* (lines 177-179), a direct moderate has no handler.
RaiseDelivery(r) ==
    /\ req' = [req EXCEPT ![r].pc = "raised", ![r].err = "DeliveryError"]
    /\ IF req[r].op = "warn"
       THEN SessionRollback(r)
       ELSE UNCHANGED <<warnings, actions, session>>

\* send_email of lines 127-134 and 167-174.
SendEmail(r, ok) ==
    /\ req[r].pc = "email"
    /\ IF ok
       THEN /\ req' = [req EXCEPT
                  ![r].pc = "message",
                  ![r].sent = Append(@, [chan |-> "email", to |-> req[r].user_id,
                                         subject |-> Subject(req[r]),
                                         message |-> req[r].reason])]
            /\ UNCHANGED <<warnings, actions, session>>
       ELSE RaiseDelivery(r)
    /\ UNCHANGED <<thresholds, env, now>>

\* The commit of line 176, reached when the last send has returned.
WarnCommit_early(r) == UNCHANGED <<warnings, actions, session>>

WarnCommit(r) == RequestCommit(session, req[r].wid, req[r].aid)

\* send_message of lines 135 and 175, then the rest of the coroutine.
SendMessage(r, ok) ==
    /\ req[r].pc = "message"
    /\ IF ok
       THEN /\ req' = [req EXCEPT
                  ![r].pc = "done",
                  ![r].sent = Append(@, [chan |-> "message", to |-> req[r].user_id,
                                         subject |-> "",
                                         message |-> req[r].reason])]
            /\ IF req[r].op = "warn"
               THEN WarnCommit(r)
               ELSE UNCHANGED <<warnings, actions, session>>
       ELSE RaiseDelivery(r)
    /\ UNCHANGED <<thresholds, env, now>>

\* The call is cancelled while it waits: CancelledError is raised at the
\* await.  Where CancelledError is an Exception (Python before 3.8) lines
\* 177-179 of warn catch it and roll back; where it is a BaseException they
\* do not.  A direct moderate has no handler.
Cancel(r, caught) ==
    /\ req[r].pc \in {"count", "email", "message"}
    /\ req' = [req EXCEPT ![r].pc = "cancelled", ![r].err = "CancelledError"]
    /\ IF req[r].op = "warn" /\ caught
       THEN SessionRollback(r)
       ELSE UNCHANGED <<warnings, actions, session>>
    /\ UNCHANGED <<thresholds, env, now>>

\* The call returns or its exception reaches the caller; a session of its
\* own is released with what it still holds.
Return(r) ==
    /\ req[r].pc \in {"done", "raised", "cancelled"}
    /\ req' = [req EXCEPT ![r] = IdleRequest]
    /\ session' = IF env.scope = "request"
                  THEN Others(session, req[r].wid, req[r].aid)
                  ELSE session
    /\ UNCHANGED <<warnings, actions, thresholds, env, now>>

\* ---- BaseModerationAction.turn_on / turn_off ----
\* Lines 58-59 and 64-65: set the flag on the row, then save(commit): the
\* change stays in the session, or the session is committed.
SetActive(tbl, id, value, commit) ==
    /\ \E row \in ViewOf(tbl) : row.id = id
    /\ LET isNew == \E row \in (IF tbl = "warnings" THEN session.new_w
                                                   ELSE session.new_a) : row.id = id
           flip(rows) == {IF row.id = id THEN [row EXCEPT !.is_active = value]
                          ELSE row : row \in rows}
           stored == IF tbl = "warnings" THEN warnings ELSE actions
           others == {d \in session.dirty : ~(d.tbl = tbl /\ d.id = id)}
           changed == {[tbl |-> tbl, id |-> id, is_active |-> value] :
                          row \in {x \in stored : x.id = id /\ x.is_active # value}}
           s == IF isNew
                THEN IF tbl = "warnings"
                     THEN [session EXCEPT !.new_w = flip(@)]
                     ELSE [session EXCEPT !.new_a = flip(@)]
                ELSE [session EXCEPT !.dirty = others \cup changed]
       IN  IF commit
           THEN SessionCommit(s)
           ELSE /\ Cardinality(s.dirty) <= MaxDirty
                /\ session' = s
                /\ UNCHANGED <<warnings, actions>>
    /\ UNCHANGED <<thresholds, env, req, now>>

turn_on(tbl, id, commit) == SetActive(tbl, id, TRUE, commit)

turn_off_toggle(tbl, id, commit) ==
    \E row \in ViewOf(tbl) :
        row.id = id /\ SetActive(tbl, id, ~row.is_active, commit)

turn_off(tbl, id, commit) == SetActive(tbl, id, FALSE, commit)

\* ---- timezone.now ----
Tick ==
    /\ now < MaxTime
    /\ now' = now + 1
    /\ UNCHANGED <<warnings, actions, thresholds, env, session, req>>

\* ---- serial specification: one call at a time ----
\* A call starts when no other is in progress; a direct moderate call takes
\* the default commit=True of line 113; the clock may advance at any point.
Next ==
    \/ \E t \in InputTypes, rs \in Reasons, m \in Moderators, u \in Users,
          f \in FinishAts :
          Quiescent /\ WarnBegin(SerialRequest, t, rs, m, u, f)
    \/ \E t \in InputTypes, rs \in Reasons, m \in Moderators, u \in Users,
          f \in FinishAts :
          Quiescent /\ ModerateBegin(SerialRequest, t, rs, m, u, f, TRUE)
    \/ WarnCount(SerialRequest)
    \/ \E ok \in BOOLEAN : SendEmail(SerialRequest, ok)
    \/ \E ok \in BOOLEAN : SendMessage(SerialRequest, ok)
    \/ Return(SerialRequest)
    \/ \E tbl \in Tables, row \in ViewWarnings \cup ViewActions, c \in BOOLEAN :
          Quiescent /\ turn_on(tbl, row.id, c)
    \/ \E tbl \in Tables, row \in ViewWarnings \cup ViewActions, c \in BOOLEAN :
          Quiescent /\ turn_off(tbl, row.id, c)
    \/ Tick

Spec == Init /\ [][Next]_vars

\* The one user of the smaller specifications.
ConcUsers == {1}

\* ---- serial specification whose calls may carry an empty reason ----
ValidationReasons == Reasons \cup {""}

NextValidation ==
    \/ \E t \in InputTypes, rs \in ValidationReasons, m \in Moderators,
          u \in ConcUsers, f \in FinishAts :
          Quiescent /\ WarnBegin(SerialRequest, t, rs, m, u, f)
    \/ \E t \in InputTypes, rs \in ValidationReasons, m \in Moderators,
          u \in ConcUsers, f \in FinishAts :
          Quiescent /\ ModerateBegin(SerialRequest, t, rs, m, u, f, TRUE)
    \/ WarnCount(SerialRequest)
    \/ \E ok \in BOOLEAN : SendEmail(SerialRequest, ok)
    \/ \E ok \in BOOLEAN : SendMessage(SerialRequest, ok)
    \/ Return(SerialRequest)

SpecValidation == Init /\ [][NextValidation]_vars

\* ---- serial specification of the activation flips on one user's rows ----
NextFlips ==
    \/ \E t \in InputTypes, rs \in Reasons, m \in Moderators,
          u \in ConcUsers, f \in FinishAts :
          Quiescent /\ WarnBegin(SerialRequest, t, rs, m, u, f)
    \/ \E t \in InputTypes, rs \in Reasons, m \in Moderators,
          u \in ConcUsers, f \in FinishAts :
          Quiescent /\ ModerateBegin(SerialRequest, t, rs, m, u, f, TRUE)
    \/ WarnCount(SerialRequest)
    \/ \E ok \in BOOLEAN : SendEmail(SerialRequest, ok)
    \/ \E ok \in BOOLEAN : SendMessage(SerialRequest, ok)
    \/ Return(SerialRequest)
    \/ \E tbl \in Tables, row \in ViewWarnings \cup ViewActions, c \in BOOLEAN :
          Quiescent /\ turn_on(tbl, row.id, c)
    \/ \E tbl \in Tables, row \in ViewWarnings \cup ViewActions, c \in BOOLEAN :
          Quiescent /\ turn_off(tbl, row.id, c)

SpecFlips == Init /\ [][NextFlips]_vars

\* ---- serial specification of repeated warn calls for one user ----
\* Every warning may escalate: there is room for as many Actions as Warnings.
InitAccum ==
    /\ warnings = {}
    /\ actions = {}
    /\ thresholds \in ThresholdTables
    /\ session = EmptySession
    /\ req = [r \in Requests |-> IdleRequest]
    /\ now = 0
    /\ env = [scope |-> "shared", action_rows |-> MaxWarnings]

NextAccum ==
    \/ \E t \in InputTypes, rs \in Reasons, m \in Moderators,
          u \in ConcUsers, f \in FinishAts :
          Quiescent /\ WarnBegin(SerialRequest, t, rs, m, u, f)
    \/ WarnCount(SerialRequest)
    \/ \E ok \in BOOLEAN : SendEmail(SerialRequest, ok)
    \/ \E ok \in BOOLEAN : SendMessage(SerialRequest, ok)
    \/ Return(SerialRequest)

SpecAccum == InitAccum /\ [][NextAccum]_vars

\* ---- concurrent specification: two calls interleaved at their awaits ----
\* One user; the ban_game threshold equals the number of concurrent calls;
\* either session scope; a call in progress may be cancelled.

InitConc ==
    /\ warnings = {}
    /\ actions = {}
    /\ thresholds = ThresholdTable(Some(Cardinality(Requests)), None)
    /\ session = EmptySession
    /\ req = [r \in Requests |-> IdleRequest]
    /\ now = 0
    /\ env \in {[scope |-> sc, action_rows |-> MaxActions] :
                   sc \in {"shared", "request"}}

NextConc ==
    \E r \in Requests :
        \/ \E t \in InputTypes, rs \in Reasons, m \in Moderators,
              u \in ConcUsers, f \in FinishAts :
              WarnBegin(r, t, rs, m, u, f)
        \/ \E t \in InputTypes, rs \in Reasons, m \in Moderators,
              u \in ConcUsers, f \in FinishAts :
              ModerateBegin(r, t, rs, m, u, f, TRUE)
        \/ WarnCount(r)
        \/ \E ok \in BOOLEAN : SendEmail(r, ok)
        \/ \E ok \in BOOLEAN : SendMessage(r, ok)
        \/ \E caught \in BOOLEAN : Cancel(r, caught)
        \/ Return(r)

SpecConc == InitConc /\ [][NextConc]_vars

\* ======================= claims =======================
Ids(rows) == {row.id : row \in rows}

RowsOf(rows, user_id, action_type) ==
    {row \in rows : row.user_id = user_id /\ row.action_type = action_type}

ActiveRowsOf(rows, user_id, action_type) ==
    {row \in RowsOf(rows, user_id, action_type) : row.is_active}

WarnDone(r) == req[r].op = "warn" /\ req[r].pc = "done"

CreatedAction(r) == req[r].aid # 0 /\ req[r].aid \in Ids(actions)

CreatedWarning(r) == req[r].wid # 0 /\ req[r].wid \in Ids(warnings)

EmailSubjects(r) ==
    {req[r].sent[i].subject :
        i \in {j \in 1..Len(req[r].sent) : req[r].sent[j].chan = "email"}}

Threshold(r) == thresholds[req[r].action_type]

C4_ModerateNoPartialState ==
    \A r \in Requests :
        req[r].op = "moderate" =>
            /\ req[r].pc = "done" =>
                  /\ req[r].aid \in Ids(actions)
                  /\ Len(req[r].sent) = 2
            /\ req[r].pc = "raised" => req[r].aid \notin Ids(actions)

C6_PermanentNeverFinished ==
    \A a \in ViewActions :
        a.finish_at = None =>
            /\ ~finished(a, now)
            /\ action_active(a, now) <=> a.is_active

\* C7: an Action whose finish_at is at or before now is not active whatever
\* is_active says; one whose finish_at is after now is active exactly when
\* is_active is set.
C7_TimeLimitedExpiry ==
    \A a \in ViewActions :
        a.finish_at # None =>
            /\ a.finish_at[1] <= now => ~action_active(a, now)
            /\ a.finish_at[1] > now => (action_active(a, now) <=> a.is_active)

C7_Witness ==
    \E a \in ViewActions :
        /\ a.finish_at # None
        /\ a.finish_at[1] <= now
        /\ a.is_active
        /\ ~action_active(a, now)
        /\ a \notin get_moderations(a.user_id)

\* C8: get_moderations(U) holds every Action of U without finish_at that is
\* not deactivated, from the moderate call that made it on; and it holds no
\* Action of another user, no deactivated one, and none past its finish_at.
C8_ListingActiveActions ==
    /\ \A a \in ViewActions :
          (a.finish_at = None /\ a.is_active) => a \in get_moderations(a.user_id)
    /\ \A u \in Users : \A a \in get_moderations(u) :
          /\ a.user_id = u
          /\ a.is_active
          /\ a.finish_at # None => a.finish_at[1] > now

C12_ValidationBeforeWrite ==
    \A r \in Requests :
        (req[r].op # "none" /\ req[r].reason = "") =>
            /\ req[r].sent = <<>>
            /\ \A w \in ViewWarnings : w.reason # ""
            /\ \A x \in ViewActions : x.reason # ""

\* C13: idempotent activation flips.  Every turn_off step leaves the row
\* inactive and every turn_on step leaves it active, whatever the flag was
\* before (so a repeated call changes nothing and is never refused on a row
\* that exists); no other field of the row, no other row of either table and
\* no threshold changes.
FlipPost(tbl, id, value) ==
    /\ ViewOf(tbl)' = {IF row.id = id THEN [row EXCEPT !.is_active = value]
                       ELSE row : row \in ViewOf(tbl)}
    /\ \A other \in Tables \ {tbl} : ViewOf(other)' = ViewOf(other)
    /\ thresholds' = thresholds

C13_IdempotentFlips ==
    [][\A tbl \in Tables, c \in BOOLEAN :
          \A id \in Ids(ViewWarnings \cup ViewActions) :
              /\ turn_off(tbl, id, c) => FlipPost(tbl, id, FALSE)
              /\ turn_on(tbl, id, c) => FlipPost(tbl, id, TRUE)]_vars

\* A warning switched off and left in the session, next to a warning switched
\* off and committed, with no call in progress.
C13_Witness ==
    /\ Quiescent
    /\ \E w \in warnings : w.is_active /\ \E v \in ViewWarnings :
          v.id = w.id /\ ~v.is_active
    /\ \E w \in warnings : ~w.is_active
    /\ \E x \in ViewActions : ~x.is_active

EscalationsDue(n, t) == IF n - t + 1 > 0 THEN n - t + 1 ELSE 0

====
